---- MODULE Spec2Model ----
(***************************************************************************)
(* Model of src/map.py: the Streamlit page that fetches monthly NEX-GDDP-  *)
(* CMIP6 projections for a clicked point, labels each month with flood and *)
(* drought risk, and renders charts, a table and a CSV download.           *)
(*                                                                         *)
(* A Streamlit script is re-executed from the top on every interaction.    *)
(* pc is the position of the current execution:                            *)
(*   "idle"  - the script has run to its end and waits for an interaction  *)
(*   "fetch" - inside the try block of the button handler, line 98         *)
(*   "loop"  - at the head of the per-month for loop, line 123             *)
(* Text (Python str) is a sequence of one-character strings.               *)
(* None is the empty sequence <<>>; a present value v is <<v>> where the   *)
(* code tests for None, and a bare value elsewhere.                        *)
(* Real numbers are exact fixed-point integers: millimetres and degrees    *)
(* are carried in hundredths, the raw precipitation sum in units of        *)
(* 1/RawPrDen kg/m^2/s.                                                    *)
(***************************************************************************)
EXTENDS Integers, Sequences, FiniteSets, TLC

VARIABLES
    secrets,            \* st.secrets content kind (environment, fixed)
    ee_initialized,     \* whether ee.Initialize succeeded in this execution
    last_clicked,       \* map_data["last_clicked"]: <<>> or <<lat, lon>>
    start_date,         \* start_date widget value <<y, m, d>>
    end_date,           \* end_date widget value <<y, m, d>>
    pc,                 \* position of the current script execution
    button,             \* st.button's value in the current execution
    errors,             \* st.error messages shown by the current execution
    remote_calls,       \* number of getInfo() round trips of this execution
    monthly_collection, \* monthly_collection.getInfo(): sequence of 'YYYY-MM'
    idx,                \* index of the next year_month of the for loop
    filter_window,      \* arguments of the last monthly filterDate: <<>> or <<from, to>>
    fetched,            \* history: the remote outcome for each month tried
    monthly_data_list,  \* the accumulator of line 121
    df,                 \* the DataFrame of lines 162-174, as a sequence of rows
    shown,              \* output elements rendered by the current execution
    csv_string          \* the text handed to st.download_button, or <<>>

vars == <<secrets, ee_initialized, last_clicked, start_date, end_date, pc,
          button, errors, remote_calls, monthly_collection, idx, filter_window,
          fetched, monthly_data_list, df, shown, csv_string>>

-----------------------------------------------------------------------------
(* Bounds of the model *)

MaxMonths == 2

-----------------------------------------------------------------------------
(* Fixed-point scales *)

Centi == 100
RawPrDen == 8640000

-----------------------------------------------------------------------------
(* Calendar: datetime.date / datetime.datetime / datetime.timedelta *)

IsLeap(y) == (y % 4 = 0) /\ ((y % 100 # 0) \/ (y % 400 = 0))

DaysInMonth(y, m) ==
    IF m = 2 THEN (IF IsLeap(y) THEN 29 ELSE 28)
    ELSE IF m \in {4, 6, 9, 11} THEN 30 ELSE 31

DateLess(a, b) ==
    \/ a[1] < b[1]
    \/ a[1] = b[1] /\ a[2] < b[2]
    \/ a[1] = b[1] /\ a[2] = b[2] /\ a[3] < b[3]

DateLeq(a, b) == a = b \/ DateLess(a, b)

\* date + timedelta(days=n), rolling over one month at a time
RECURSIVE AddDays(_, _)
AddDays(d, n) ==
    IF n >= 0
    THEN IF d[3] + n <= DaysInMonth(d[1], d[2])
         THEN <<d[1], d[2], d[3] + n>>
         ELSE AddDays(IF d[2] < 12 THEN <<d[1], d[2] + 1, 1>> ELSE <<d[1] + 1, 1, 1>>,
                      n - (DaysInMonth(d[1], d[2]) - d[3] + 1))
    ELSE IF d[3] + n >= 1
         THEN <<d[1], d[2], d[3] + n>>
         ELSE AddDays(IF d[2] > 1
                      THEN <<d[1], d[2] - 1, DaysInMonth(d[1], d[2] - 1)>>
                      ELSE <<d[1] - 1, 12, 31>>,
                      n + d[3])

ReplaceDay(d, day) == <<d[1], d[2], day>>

min_date == <<2025, 1, 1>>
max_date == <<2100, 12, 31>>

-----------------------------------------------------------------------------
(* Text *)

Digits == <<"0", "1", "2", "3", "4", "5", "6", "7", "8", "9">>

DigitChar(n) == Digits[n + 1]

IsDigit(c) == \E i \in 1..10 : Digits[i] = c

DigitVal(c) == (CHOOSE i \in 1..10 : Digits[i] = c) - 1

RECURSIVE FormatNat(_, _)
FormatNat(n, width) ==
    IF width <= 1 /\ n < 10 THEN <<DigitChar(n)>>
    ELSE Append(FormatNat(n \div 10, width - 1), DigitChar(n % 10))

RECURSIVE ParseNat(_)
ParseNat(t) ==
    IF t = <<>> THEN 0
    ELSE 10 * ParseNat(SubSeq(t, 1, Len(t) - 1)) + DigitVal(t[Len(t)])

\* ee.Date.format('YYYY-MM') on the service side
FormatYearMonth(ym) == FormatNat(ym[1], 4) \o <<"-">> \o FormatNat(ym[2], 2)

\* datetime.datetime.strptime(year_month, '%Y-%m')
Strptime(t) == <<ParseNat(SubSeq(t, 1, 4)), ParseNat(SubSeq(t, 6, 7)), 1>>

\* strftime('%Y-%m-%d'), also the ISO text pandas writes for a midnight Timestamp
Isoformat(d) ==
    FormatNat(d[1], 4) \o <<"-">> \o FormatNat(d[2], 2) \o <<"-">> \o FormatNat(d[3], 2)

\* ee.Date('YYYY-MM-DD')
EeDate(t) == <<ParseNat(SubSeq(t, 1, 4)), ParseNat(SubSeq(t, 6, 7)), ParseNat(SubSeq(t, 9, 10))>>

\* pd.to_datetime on a 'YYYY-MM' string: midnight of the first day of the month
ToDatetime(t) == <<ParseNat(SubSeq(t, 1, 4)), ParseNat(SubSeq(t, 6, 7)), 1>>


\* repr of a float, on the fixed-point representation: sign, integer part, ".", hundredths
FormatFloat(x) ==
    (IF x < 0 THEN <<"-">> ELSE <<>>)
        \o FormatNat((IF x < 0 THEN -x ELSE x) \div Centi, 1)
        \o <<".">>
        \o FormatNat((IF x < 0 THEN -x ELSE x) % Centi, 2)

RiskLabels == {"Low", "Moderate", "High"}

LabelText(l) ==
    CASE l = "Low" -> <<"L", "o", "w">>
      [] l = "Moderate" -> <<"M", "o", "d", "e", "r", "a", "t", "e">>
      [] l = "High" -> <<"H", "i", "g", "h">>

\* the DataFrame's columns after reset_index(), in order
ColumnNames ==
    <<<<"d", "a", "t", "e">>,
      <<"p", "r", "e", "c", "i", "p", "i", "t", "a", "t", "i", "o", "n", "_", "m", "m">>,
      <<"m", "i", "n", "_", "t", "e", "m", "p", "e", "r", "a", "t", "u", "r", "e", "_", "c">>,
      <<"m", "a", "x", "_", "t", "e", "m", "p", "e", "r", "a", "t", "u", "r", "e", "_", "c">>,
      <<"f", "l", "o", "o", "d", "_", "r", "i", "s", "k">>,
      <<"d", "r", "o", "u", "g", "h", "t", "_", "r", "i", "s", "k">>>>

-----------------------------------------------------------------------------
(* Earth Engine initialization, lines 19-49 *)

SecretsKinds == {"dict", "json_string", "absent", "malformed_json", "missing_field", "rejected"}

\* TRUE iff the try block of lines 19-46 reaches line 46
InitializeEE(s) ==
    CASE s = "absent" -> FALSE          \* st.secrets["earthengine"] raises, line 21
      [] s = "malformed_json" -> FALSE  \* json.loads raises, line 26
      [] s = "missing_field" -> FALSE   \* KeyError, line 36
      [] s = "rejected" -> FALSE        \* ServiceAccountCredentials / ee.Initialize raises, lines 44-45
      [] s = "json_string" -> TRUE
      [] s = "dict" -> TRUE

InitFailedMsg == "Earth Engine initialization failed"

\* the st.error of line 48, issued by every execution of the script
InitErrors(s) == IF InitializeEE(s) THEN {} ELSE {InitFailedMsg}

-----------------------------------------------------------------------------
(* Widgets, lines 59-84 *)

PointChoices == {<<0, 0>>, <<7, 80>>}

DateChoices ==
    {<<2024, 12, 31>>, <<2025, 1, 1>>, <<2025, 12, 31>>, <<2100, 12, 31>>, <<2101, 1, 1>>}

\* st.date_input(min_value=min_date, max_value=max_date) accepts only dates in range
DateInputAccepts(d) == DateLeq(min_date, d) /\ DateLeq(d, max_date)

-----------------------------------------------------------------------------
(* Validation chain of the button handler, lines 88-95 *)

NoPointMsg == "Please click a location on the map."
OrderMsg == "Start date must be before end date."
StartMsg == "Start date must be on or after 2025 for future projections."
EndMsg == "End date cannot be after 2100."
FailedMsg == "Failed to fetch data"
NoDataMsg == "No data available for the selected location, date range, model, or scenario."

ValidationMsgs == {NoPointMsg, OrderMsg, StartMsg, EndMsg}

\* Validate without the start_date >= end_date branch
Validate_NoOrderCheck(lc, s, e) ==
    IF lc = <<>> THEN NoPointMsg
    ELSE IF DateLess(s, <<2025, 1, 1>>) THEN StartMsg
    ELSE IF DateLess(<<2100, 12, 31>>, e) THEN EndMsg
    ELSE "ok"

\* the message of the first failing branch, or "ok" when the else branch is taken
Validate(lc, s, e) ==
    IF lc = <<>> THEN NoPointMsg
    ELSE IF ~DateLess(s, e) THEN OrderMsg
    ELSE IF DateLess(s, <<2025, 1, 1>>) THEN StartMsg
    ELSE IF DateLess(<<2100, 12, 31>>, e) THEN EndMsg
    ELSE "ok"

-----------------------------------------------------------------------------
(* The remote service *)

MonthChoices == {<<2025, 1>>, <<2025, 2>>, <<2025, 12>>, <<2100, 12>>}

\* filterDate(start, end): images with start <= time < end
MonthInRange(ym, s, e) ==
    /\ DateLess(<<ym[1], ym[2], 1>>, e)
    /\ DateLeq(s, <<ym[1], ym[2], DaysInMonth(ym[1], ym[2])>>)

IsInjective(f) == \A i, j \in DOMAIN f : f[i] = f[j] => i = j

\* aggregate_array('year_month').distinct().getInfo(): distinct year-months of the
\* filtered collection, in whatever order the service lists them
DiscoverableMonths(s, e) ==
    LET S == {FormatYearMonth(ym) : ym \in {c \in MonthChoices : MonthInRange(c, s, e)}}
    IN  {q \in UNION {[1..n -> S] : n \in 0..MaxMonths} : IsInjective(q)}

DataKeys == {"pr_sum", "tasmin_mean", "tasmax_mean"}

PrSums == {2000, 12000}
TasminKs == {26815}
TasmaxKs == {29315, 30815}

CompleteData ==
    {[pr_sum |-> p, tasmin_mean |-> a, tasmax_mean |-> b] :
        p \in PrSums, a \in TasminKs, b \in TasmaxKs}

SampleData == [pr_sum |-> 2000, tasmin_mean |-> 26815, tasmax_mean |-> 30815]

\* reduceRegion results in which at least one band has no value at the point
PartialData == {[k \in K |-> SampleData[k]] : K \in (SUBSET DataKeys) \ {DataKeys}}

Raised == [raised |-> TRUE, data |-> <<>>]

Responses == {Raised} \cup {[raised |-> FALSE, data |-> d] : d \in CompleteData \cup PartialData}

\* dict.get(key): <<>> for None
Get(d, k) == IF k \in DOMAIN d THEN <<d[k]>> ELSE <<>>

-----------------------------------------------------------------------------
(* The per-month step, lines 123-158 *)

\* MonthWindow with timedelta(days=30) in place of timedelta(days=31)
MonthWindow_Plus30(year_month) ==
    LET month_start == Strptime(year_month)
        month_end == AddDays(ReplaceDay(AddDays(month_start, 30), 1), -1)
    IN  <<EeDate(year_month \o <<"-", "0", "1">>),
          AddDays(EeDate(Isoformat(month_end)), 1)>>

\* lines 124-130: the two arguments of dataset.filterDate for one year_month
MonthWindow(year_month) ==
    LET month_start == Strptime(year_month)
        month_end == AddDays(ReplaceDay(AddDays(month_start, 31), 1), -1)
    IN  <<EeDate(year_month \o <<"-", "0", "1">>),
          AddDays(EeDate(Isoformat(month_end)), 1)>>

\* line 148
AllPresent(d) == \A k \in DataKeys : Get(d, k) # <<>>

\* lines 149-158: the record appended for one month
MonthRecord(year_month, d) ==
    [date |-> year_month,
     precipitation_mm |-> (d["pr_sum"] * 86400) \div (RawPrDen \div Centi),
     min_temperature_c |-> d["tasmin_mean"] - 27315,
     max_temperature_c |-> d["tasmax_mean"] - 27315]

-----------------------------------------------------------------------------
(* Risk labels, lines 167-174 *)

\* flood_risk with >= in place of >
flood_risk_NonStrict(x) ==
    IF x >= 100 * Centi THEN "High"
    ELSE IF x >= 50 * Centi THEN "Moderate"
    ELSE "Low"

flood_risk(x) ==
    IF x > 100 * Centi THEN "High"
    ELSE IF x > 50 * Centi THEN "Moderate"
    ELSE "Low"

\* drought_risk with >= in place of > on the temperature
drought_risk_NonStrict(row) ==
    IF row.precipitation_mm < 30 * Centi /\ row.max_temperature_c >= 30 * Centi THEN "High"
    ELSE IF row.precipitation_mm < 50 * Centi /\ row.max_temperature_c >= 25 * Centi THEN "Moderate"
    ELSE "Low"

drought_risk(row) ==
    IF row.precipitation_mm < 30 * Centi /\ row.max_temperature_c > 30 * Centi THEN "High"
    ELSE IF row.precipitation_mm < 50 * Centi /\ row.max_temperature_c > 25 * Centi THEN "Moderate"
    ELSE "Low"

\* lines 162-174: one row of df; the index is the parsed date
FrameRow(rec) ==
    [date |-> ToDatetime(rec.date),
     precipitation_mm |-> rec.precipitation_mm,
     min_temperature_c |-> rec.min_temperature_c,
     max_temperature_c |-> rec.max_temperature_c,
     flood_risk |-> flood_risk(rec.precipitation_mm),
     drought_risk |-> drought_risk(rec)]

BuildFrame(list) == [i \in 1..Len(list) |-> FrameRow(list[i])]

-----------------------------------------------------------------------------
(* CSV generation, lines 228-231 *)

RECURSIVE JoinFields(_)
JoinFields(fields) ==
    IF Len(fields) = 1 THEN fields[1]
    ELSE fields[1] \o <<",">> \o JoinFields(Tail(fields))

CsvLine(row) ==
    JoinFields(<<Isoformat(row.date),
                 FormatFloat(row.precipitation_mm),
                 FormatFloat(row.min_temperature_c),
                 FormatFloat(row.max_temperature_c),
                 LabelText(row.flood_risk),
                 LabelText(row.drought_risk)>>) \o <<"\n">>

RECURSIVE CsvLines(_)
CsvLines(frame) ==
    IF frame = <<>> THEN <<>> ELSE CsvLine(frame[1]) \o CsvLines(Tail(frame))

RECURSIVE CsvLines_NoIndex(_)
CsvLines_NoIndex(frame) ==
    IF frame = <<>> THEN <<>>
    ELSE JoinFields(<<FormatFloat(frame[1].precipitation_mm),
                      FormatFloat(frame[1].min_temperature_c),
                      FormatFloat(frame[1].max_temperature_c),
                      LabelText(frame[1].flood_risk),
                      LabelText(frame[1].drought_risk)>>) \o <<"\n">>
         \o CsvLines_NoIndex(Tail(frame))

\* ToCsv without reset_index(): index=False then drops the date
ToCsv_NoResetIndex(frame) ==
    JoinFields(Tail(ColumnNames)) \o <<"\n">> \o CsvLines_NoIndex(frame)

\* df.reset_index().to_csv(output, index=False)
ToCsv(frame) == JoinFields(ColumnNames) \o <<"\n">> \o CsvLines(frame)

Outputs == {"fig_precip", "fig_tasmin", "fig_tasmax", "dataframe", "download_button"}

-----------------------------------------------------------------------------
(* Script executions *)

Init ==
    /\ secrets \in SecretsKinds
    /\ ee_initialized = InitializeEE(secrets)
    /\ last_clicked = <<>>
    /\ start_date = <<2025, 1, 1>>
    /\ end_date = <<2025, 12, 31>>
    /\ pc = "idle"
    /\ button = FALSE
    /\ errors = InitErrors(secrets)
    /\ remote_calls = 0
    /\ monthly_collection = <<>>
    /\ idx = 1
    /\ filter_window = <<>>
    /\ fetched = <<>>
    /\ monthly_data_list = <<>>
    /\ df = <<>>
    /\ shown = {}
    /\ csv_string = <<>>

\* lines 19-49 and the clearing of the page that every new execution starts with
TopOfScript ==
    /\ ee_initialized' = InitializeEE(secrets)
    /\ remote_calls' = 0
    /\ monthly_collection' = <<>>
    /\ idx' = 1
    /\ filter_window' = <<>>
    /\ fetched' = <<>>
    /\ monthly_data_list' = <<>>
    /\ df' = <<>>
    /\ shown' = {}
    /\ csv_string' = <<>>
    /\ UNCHANGED secrets

\* an execution in which st.button returns False: lines 19-87
RunWithoutButton ==
    /\ TopOfScript
    /\ button' = FALSE
    /\ errors' = InitErrors(secrets)
    /\ pc' = "idle"

\* the user clicks the map: lines 62, 81-83
ClickMap(p) ==
    /\ pc = "idle"
    /\ last_clicked' = p
    /\ UNCHANGED <<start_date, end_date>>
    /\ RunWithoutButton

\* the user picks a start date: line 69
SetStartDate(d) ==
    /\ pc = "idle"
    /\ DateInputAccepts(d)
    /\ start_date' = d
    /\ UNCHANGED <<last_clicked, end_date>>
    /\ RunWithoutButton

\* the user picks an end date: line 70
SetEndDate(d) ==
    /\ pc = "idle"
    /\ DateInputAccepts(d)
    /\ end_date' = d
    /\ UNCHANGED <<last_clicked, start_date>>
    /\ RunWithoutButton

\* the user presses "Fetch Climate Data": lines 19-96
PressFetch ==
    /\ pc = "idle"
    /\ TopOfScript
    /\ button' = TRUE
    /\ UNCHANGED <<last_clicked, start_date, end_date>>
    /\ LET v == Validate(last_clicked, start_date, end_date)
       IN  IF v = "ok"
           THEN /\ errors' = InitErrors(secrets)
                /\ pc' = "fetch"
           ELSE /\ errors' = InitErrors(secrets) \cup {v}
                /\ pc' = "idle"

\* the except clause of lines 242-244
Failed ==
    /\ errors' = errors \cup {FailedMsg}
    /\ pc' = "idle"

\* lines 98-123: build the query and ask the service for the distinct year-months.
\* Without a successful ee.Initialize the client raises before contacting the service.
BuildQuery ==
    /\ pc = "fetch"
    /\ UNCHANGED <<secrets, ee_initialized, last_clicked, start_date, end_date, button,
                   filter_window, fetched, monthly_data_list, df, shown, csv_string>>
    /\ IF ~ee_initialized
       THEN /\ Failed
            /\ UNCHANGED <<remote_calls, monthly_collection, idx>>
       ELSE /\ remote_calls' = remote_calls + 1
            /\ \/ /\ Failed
                  /\ UNCHANGED <<monthly_collection, idx>>
               \/ \E q \in DiscoverableMonths(start_date, end_date) :
                     /\ monthly_collection' = q
                     /\ idx' = 1
                     /\ errors' = errors
                     /\ pc' = "loop"

\* FetchMonthWith without the guard of line 148: float(None) raises into the except clause
FetchMonthWith_NoGuard(r) ==
    /\ pc = "loop"
    /\ idx <= Len(monthly_collection)
    /\ UNCHANGED <<secrets, ee_initialized, last_clicked, start_date, end_date, button,
                   monthly_collection, df, shown, csv_string>>
    /\ LET year_month == monthly_collection[idx]
       IN  /\ filter_window' = MonthWindow(year_month)
           /\ remote_calls' = remote_calls + 1
           /\ fetched' = Append(fetched, [year_month |-> year_month,
                                          raised |-> r.raised, data |-> r.data])
           /\ idx' = idx + 1
           /\ IF r.raised \/ ~AllPresent(r.data)
              THEN /\ Failed
                   /\ UNCHANGED monthly_data_list
              ELSE /\ monthly_data_list' = Append(monthly_data_list, MonthRecord(year_month, r.data))
                   /\ errors' = errors
                   /\ pc' = "loop"

\* one iteration of the for loop, lines 123-158, with the service answering r
FetchMonthWith(r) ==
    /\ pc = "loop"
    /\ idx <= Len(monthly_collection)
    /\ UNCHANGED <<secrets, ee_initialized, last_clicked, start_date, end_date, button,
                   monthly_collection, df, shown, csv_string>>
    /\ LET year_month == monthly_collection[idx]
       IN  /\ filter_window' = MonthWindow(year_month)
           /\ remote_calls' = remote_calls + 1
           /\ fetched' = Append(fetched, [year_month |-> year_month,
                                          raised |-> r.raised, data |-> r.data])
           /\ idx' = idx + 1
           /\ IF r.raised
              THEN /\ Failed
                   /\ UNCHANGED monthly_data_list
              ELSE /\ monthly_data_list' =
                        IF AllPresent(r.data)
                        THEN Append(monthly_data_list, MonthRecord(year_month, r.data))
                        ELSE monthly_data_list
                   /\ errors' = errors
                   /\ pc' = "loop"

FetchMonth == \E r \in Responses : FetchMonthWith(r)

\* ShowResults without the test of line 160
ShowResults_NoEmptyTest ==
    /\ pc = "loop"
    /\ idx > Len(monthly_collection)
    /\ UNCHANGED <<secrets, ee_initialized, last_clicked, start_date, end_date, button,
                   remote_calls, monthly_collection, idx, filter_window, fetched,
                   monthly_data_list, errors>>
    /\ pc' = "idle"
    /\ df' = BuildFrame(monthly_data_list)
    /\ shown' = Outputs
    /\ csv_string' = ToCsv(df')

\* after the loop, lines 160-241
ShowResults ==
    /\ pc = "loop"
    /\ idx > Len(monthly_collection)
    /\ UNCHANGED <<secrets, ee_initialized, last_clicked, start_date, end_date, button,
                   remote_calls, monthly_collection, idx, filter_window, fetched,
                   monthly_data_list>>
    /\ pc' = "idle"
    /\ IF monthly_data_list # <<>>
       THEN /\ df' = BuildFrame(monthly_data_list)
            /\ shown' = Outputs
            /\ csv_string' = ToCsv(df')
            /\ errors' = errors
       ELSE /\ errors' = errors \cup {NoDataMsg}
            /\ UNCHANGED <<df, shown, csv_string>>

Next ==
    \/ \E p \in PointChoices : ClickMap(p)
    \/ \E d \in DateChoices : SetStartDate(d)
    \/ \E d \in DateChoices : SetEndDate(d)
    \/ PressFetch
    \/ BuildQuery
    \/ FetchMonth
    \/ ShowResults

Spec == Init /\ [][Next]_vars

-----------------------------------------------------------------------------
(* The risk labels over a wide range of monthly values: one discovered month, *)
(* the service answering with any value around the thresholds.                *)

PrSumsWide ==
    {0, 2000, 2999, 3000, 3001, 4999, 5000, 5001, 8000, 9999, 10000, 10001, 12000}
TasmaxKsWide == {29315, 29815, 29816, 30315, 30316, 30815}

WideResponses ==
    {[raised |-> FALSE, data |-> [pr_sum |-> p, tasmin_mean |-> a, tasmax_mean |-> b]] :
        p \in PrSumsWide, a \in TasminKs, b \in TasmaxKsWide}

\* the state at line 123 of an execution whose query discovered the months q
AtLoopHead(q, s, e) ==
    /\ secrets = "dict"
    /\ ee_initialized = TRUE
    /\ last_clicked = <<0, 0>>
    /\ start_date = s
    /\ end_date = e
    /\ pc = "loop"
    /\ button = TRUE
    /\ errors = {}
    /\ remote_calls = 1
    /\ monthly_collection = q
    /\ idx = 1
    /\ filter_window = <<>>
    /\ fetched = <<>>
    /\ monthly_data_list = <<>>
    /\ df = <<>>
    /\ shown = {}
    /\ csv_string = <<>>

RiskInit == AtLoopHead(<<FormatYearMonth(<<2025, 1>>)>>, <<2025, 1, 1>>, <<2025, 12, 31>>)

RiskFetch == \E r \in WideResponses : FetchMonthWith(r)

RiskNext == RiskFetch \/ ShowResults

SpecRisk == RiskInit /\ [][RiskNext]_vars

-----------------------------------------------------------------------------
(* The monthly window for every year-month the date pickers allow *)

WindowInit ==
    \E y \in min_date[1]..max_date[1], m \in 1..12 :
        AtLoopHead(<<FormatYearMonth(<<y, m>>)>>, min_date, max_date)

WindowNext == FetchMonth \/ ShowResults

SpecWindow == WindowInit /\ [][WindowNext]_vars

-----------------------------------------------------------------------------
(* Reading a CSV text back *)

Positions(t, c) == {i \in 1..Len(t) : t[i] = c}

\* the pieces of t between the occurrences of c
Split(t, c) ==
    LET P == Positions(t, c)
        n == Cardinality(P)
        Pos(k) == CHOOSE i \in P : Cardinality({j \in P : j < i}) = k - 1
        From(k) == IF k = 1 THEN 1 ELSE Pos(k - 1) + 1
        To(k) == IF k = n + 1 THEN Len(t) ELSE Pos(k) - 1
    IN  [k \in 1..(n + 1) |-> SubSeq(t, From(k), To(k))]

\* the lines of a text in which every line ends with "\n"
SplitLines(t) ==
    LET parts == Split(t, "\n") IN SubSeq(parts, 1, Len(parts) - 1)

ParseCsv(t) ==
    LET lines == SplitLines(t) IN [i \in 1..Len(lines) |-> Split(lines[i], ",")]

ParseFloat(t) ==
    LET neg == t[1] = "-"
        body == IF neg THEN Tail(t) ELSE t
        dot == CHOOSE i \in 1..Len(body) : body[i] = "."
        whole == ParseNat(SubSeq(body, 1, dot - 1))
        frac == ParseNat(SubSeq(body, dot + 1, Len(body)))
        mag == whole * Centi + frac
    IN  IF neg THEN -mag ELSE mag

ParseLabel(t) == CHOOSE l \in RiskLabels : LabelText(l) = t

FirstOfFollowingMonth(y, m) == IF m = 12 THEN <<y + 1, 1, 1>> ELSE <<y, m + 1, 1>>

Complete(f) == ~f.raised /\ DOMAIN f.data = DataKeys

InputsValid ==
    /\ last_clicked # <<>>
    /\ DateLeq(<<2025, 1, 1>>, start_date)
    /\ DateLess(start_date, end_date)
    /\ DateLeq(end_date, <<2100, 12, 31>>)

-----------------------------------------------------------------------------
(* Claims *)

\* C1: a fetch-button press with no point selected, start_date >= end_date,
\* start_date before 2025-01-01 or end_date after 2100-12-31 produces a user
\* error message and no remote call; whenever the handler is in its fetch block
\* or a remote call has been issued, a point is selected and
\* 2025-01-01 <= start_date < end_date <= 2100-12-31.
C1_ValidationGuardsRemoteCalls ==
    /\ (pc \in {"fetch", "loop"} \/ remote_calls > 0) => InputsValid
    /\ (button /\ ~InputsValid) =>
          /\ errors \cap ValidationMsgs # {}
          /\ remote_calls = 0
          /\ pc = "idle"
    /\ (errors \cap ValidationMsgs # {}) => (button /\ ~InputsValid /\ remote_calls = 0)

C1_Witness ==
    /\ button
    /\ last_clicked # <<>>
    /\ ~DateLess(start_date, end_date)
    /\ OrderMsg \in errors
    /\ remote_calls = 0

\* C2: once a batch is over, a month whose remote call raised is absent from the
\* output, and every other discovered month was still fetched and, if its data
\* was complete, is present in the output.
C2_PartialFailureIsolation ==
    (pc = "idle" /\ \E i \in 1..Len(fetched) : fetched[i].raised) =>
        \A i \in 1..Len(monthly_collection) :
            /\ i <= Len(fetched)
            /\ fetched[i].raised =>
                  ~\E j \in 1..Len(df) : df[j].date = ToDatetime(monthly_collection[i])
            /\ Complete(fetched[i]) =>
                  \E j \in 1..Len(df) : df[j].date = ToDatetime(monthly_collection[i])

\* C3: after a failed initialization of the remote-service client, no press of
\* the fetch button takes the handler into its fetch block (query construction)
\* and no remote call is made.
C3_InitFailureIsFatal ==
    ~InitializeEE(secrets) => (pc = "idle" /\ remote_calls = 0)

\* C4: a validated request whose batch completes with no record (no year-month
\* discovered, or no discovered month usable) ends with the no-data message and
\* without charts, table or CSV; charts, table and CSV appear only together and
\* only for a non-empty record sequence.
C4_EmptyResultPath ==
    /\ (pc = "idle" /\ remote_calls > 0 /\ FailedMsg \notin errors /\ monthly_data_list = <<>>) =>
          /\ NoDataMsg \in errors
          /\ shown = {}
          /\ df = <<>>
          /\ csv_string = <<>>
    /\ (shown # {} \/ df # <<>> \/ csv_string # <<>>) =>
          /\ monthly_data_list # <<>>
          /\ shown = Outputs
          /\ Len(df) = Len(monthly_data_list)
          /\ csv_string # <<>>
          /\ errors \cap {NoDataMsg, FailedMsg} = {}
    /\ NoDataMsg \in errors => (monthly_data_list = <<>> /\ shown = {})

C4_Witness ==
    /\ NoDataMsg \in errors
    /\ Len(monthly_collection) > 0
    /\ Len(fetched) = Len(monthly_collection)
    /\ shown = {}

\* C5: the rows of the rendered output are in ascending year-month order,
\* whatever the order of the service's list of distinct year-months.
C5_OutputSortedAscending ==
    \A i, j \in 1..Len(df) : i < j => DateLess(df[i].date, df[j].date)

\* C6: every row's drought_risk is 'High' exactly if precipitation_mm < 30 and
\* max_temperature_c > 30, 'Moderate' exactly if that fails and
\* precipitation_mm < 50 and max_temperature_c > 25, and 'Low' otherwise; it is
\* one of Low, Moderate, High.
C6_DroughtRisk ==
    \A i \in 1..Len(df) :
        LET p == df[i].precipitation_mm
            t == df[i].max_temperature_c
            high == p < 3000 /\ t > 3000
            moderate == ~high /\ p < 5000 /\ t > 2500
        IN  /\ df[i].drought_risk \in RiskLabels
            /\ df[i].drought_risk = "High" <=> high
            /\ df[i].drought_risk = "Moderate" <=> moderate
            /\ df[i].drought_risk = "Low" <=> (~high /\ ~moderate)

C6_Witness ==
    \E i \in 1..Len(df) :
        /\ df[i].precipitation_mm = 2000
        /\ df[i].max_temperature_c = 3000
        /\ df[i].drought_risk = "Moderate"

\* C7: every row's flood_risk is 'High' exactly if precipitation_mm > 100,
\* 'Moderate' exactly if 50 < precipitation_mm <= 100, 'Low' exactly if
\* precipitation_mm <= 50; it is one of Low, Moderate, High.
C7_FloodRisk ==
    \A i \in 1..Len(df) :
        LET p == df[i].precipitation_mm
        IN  /\ df[i].flood_risk \in RiskLabels
            /\ df[i].flood_risk = "High" <=> p > 10000
            /\ df[i].flood_risk = "Moderate" <=> (5000 < p /\ p <= 10000)
            /\ df[i].flood_risk = "Low" <=> p <= 5000

C7_Witness ==
    \E i \in 1..Len(df) :
        /\ df[i].precipitation_mm = 10000
        /\ df[i].flood_risk = "Moderate"

\* the fields of CSV row r other than the date reproduce record i
SameValues(r, i) ==
    /\ Len(r) = 6
    /\ ParseFloat(r[2]) = monthly_data_list[i].precipitation_mm
    /\ ParseFloat(r[3]) = monthly_data_list[i].min_temperature_c
    /\ ParseFloat(r[4]) = monthly_data_list[i].max_temperature_c
    /\ ParseLabel(r[5]) = df[i].flood_risk
    /\ ParseLabel(r[6]) = df[i].drought_risk

\* C8 as stated: the parsed CSV has one row per record, in order, with the same
\* values, and each row's date equals the year-month key of its record.
C8_CsvRoundTripYearMonthKey ==
    csv_string # <<>> =>
        LET parsed == ParseCsv(csv_string)
            rows == Tail(parsed)
        IN  /\ parsed[1] = ColumnNames
            /\ Len(rows) = Len(monthly_data_list)
            /\ \A i \in 1..Len(rows) :
                  /\ SameValues(rows[i], i)
                  /\ rows[i][1] = monthly_data_list[i].date

\* C8 amended: the parsed CSV has one row per record, in order, with the same
\* values, and each row's date is the first day of its record's year-month,
\* written YYYY-MM-01.
C8_CsvRoundTrip ==
    csv_string # <<>> =>
        LET parsed == ParseCsv(csv_string)
            rows == Tail(parsed)
        IN  /\ parsed[1] = ColumnNames
            /\ Len(rows) = Len(monthly_data_list)
            /\ Len(rows) = Len(df)
            /\ \A i \in 1..Len(rows) :
                  /\ SameValues(rows[i], i)
                  /\ rows[i][1] = monthly_data_list[i].date \o <<"-", "0", "1">>
                  /\ EeDate(rows[i][1]) = df[i].date

C8_Witness ==
    /\ csv_string # <<>>
    /\ Len(monthly_data_list) = 2
    /\ \E i \in 1..Len(df) : df[i].min_temperature_c < 0

\* C9: the accumulator holds exactly one record, with all four fields, for each
\* month fetched so far whose three reduced values were all present, in fetch
\* order and with that month's values; a month with an absent value adds
\* nothing, and the batch fails after a fetch only if that fetch raised.
C9_RecordIffAllPresent ==
    LET kept == SelectSeq(fetched, Complete)
    IN  /\ Len(monthly_data_list) = Len(kept)
        /\ \A i \in 1..Len(kept) :
              LET rec == monthly_data_list[i]
              IN  /\ DOMAIN rec = {"date", "precipitation_mm", "min_temperature_c", "max_temperature_c"}
                  /\ rec.date = kept[i].year_month
                  /\ rec.precipitation_mm * (RawPrDen \div Centi) = kept[i].data.pr_sum * 86400
                  /\ rec.min_temperature_c + 27315 = kept[i].data.tasmin_mean
                  /\ rec.max_temperature_c + 27315 = kept[i].data.tasmax_mean
        /\ (fetched # <<>> /\ FailedMsg \in errors) => fetched[Len(fetched)].raised
        /\ (fetched # <<>> /\ ~fetched[Len(fetched)].raised /\ pc = "idle") =>
              (NoDataMsg \in errors \/ shown = Outputs)

C9_Witness ==
    /\ Len(fetched) = 2
    /\ ~fetched[1].raised
    /\ DOMAIN fetched[1].data \notin {{}, DataKeys}
    /\ Complete(fetched[2])
    /\ Len(monthly_data_list) = 1
    /\ shown = Outputs

\* C10: the window of the monthly re-filter starts at the first day of the
\* year-month, ends (exclusive) at the first day of the following month, and so
\* holds every day of that month and no other day.
C10_WindowIsCalendarMonth ==
    filter_window # <<>> =>
        LET ym == Strptime(fetched[Len(fetched)].year_month)
            y == ym[1]
            m == ym[2]
        IN  /\ filter_window[1] = <<y, m, 1>>
            /\ filter_window[2] = FirstOfFollowingMonth(y, m)
            /\ \A d \in 1..DaysInMonth(y, m) :
                  /\ DateLeq(filter_window[1], <<y, m, d>>)
                  /\ DateLess(<<y, m, d>>, filter_window[2])
            /\ ~DateLeq(filter_window[1], AddDays(<<y, m, 1>>, -1))
            /\ ~DateLess(AddDays(<<y, m, DaysInMonth(y, m)>>, 1), filter_window[2])

C10_Witness ==
    /\ filter_window = <<<<2028, 2, 1>>, <<2028, 3, 1>>>>
    /\ fetched[Len(fetched)].year_month = FormatYearMonth(<<2028, 2>>)

====
